---- MODULE Spec2Model ----
(***************************************************************************)
(* Model of app.py: the Mifflin-St Jeor macro calculator                   *)
(* (calculate_macros), the prompt builder (build_mealplan_prompt), the     *)
(* chat-completion call (generate_meal_plan_with_ai), the PDF renderer     *)
(* (create_pdf_from_text) and the submission pipeline of main().           *)
(*                                                                         *)
(* Numbers.  The Python code works on floats.  Here every energy (kcal)    *)
(* and every mass (g) is an integer count of 1/Scale units, which is exact *)
(* for the inputs drawn below: ages, heights (cm) and weights (kg) are     *)
(* whole numbers, the activity factor is a count of 1/40 (the form's step  *)
(* is 0.025) and the g/kg ratios are counts of 1/10 (the form's step is    *)
(* 0.1).  Percentages are counts of 1/PctScale percent, rounded to the     *)
(* nearest unit, as a float division rounds to the nearest float.          *)
(***************************************************************************)
EXTENDS Integers, Sequences, FiniteSets, TLC

VARIABLES
    pc,             \* position of the script run / of the direct call
    inputs,         \* the form's widget values (arguments of the functions)
    macros,         \* <<>> until assigned, then <<MacroResult>>
    prompt,         \* <<>> until built, then <<prompt>>
    request,        \* <<>> or <<the request passed to client.chat.completions.create>>
    outcome,        \* <<>> or <<what client.chat.completions.create did>>
    plan_text,      \* <<>> until assigned, then <<value returned by generate_meal_plan_with_ai>>
    pdf_bytes,      \* <<>> until assigned, then <<document>>
    exc,            \* <<>> or <<the exception in flight / caught>>
    display,        \* what the page shows, in order of the st.* calls
    submissions,    \* number of form submissions so far
    requests        \* number of calls of client.chat.completions.create so far

vars == <<pc, inputs, macros, prompt, request, outcome, plan_text, pdf_bytes, exc,
          display, submissions, requests>>

----------------------------------------------------------------------------
(* Units *)

ActivityUnit == 40                  \* activity_factor = n / 40 (step=0.025)
RatioUnit == 10                     \* g/kg ratios = n / 10 (step=0.1)
Scale == 4 * 4 * ActivityUnit       \* kcal and g = n / 640: 6.25 * height is a
                                    \* count of 1/4, times n / 40, divided by 4
PctScale == 10 * RatioUnit          \* percentages = n / 100

\* a / b rounded to the nearest integer (ties up), a >= 0, b > 0
RoundDiv(a, b) == (2 * a + b) \div (2 * b)

Max(a, b) == IF a >= b THEN a ELSE b

----------------------------------------------------------------------------
(* calculate_macros *)

SAFETY_FLOOR == 1200

\* str.upper() on the values the sex argument takes
Upper(s) == CASE s = "m" -> "M"
              [] s = "f" -> "F"
              [] OTHER -> s

\* 1) RMR using current weight
RmrFemaleAsMale(sex, age, height_cm, weight_current_kg) ==
    Scale * (10 * weight_current_kg) + ((Scale * 25) \div 4) * height_cm
        - Scale * (5 * age) + Scale * 5

Rmr(sex, age, height_cm, weight_current_kg) ==
    IF Upper(sex) = "M"
    THEN Scale * (10 * weight_current_kg) + ((Scale * 25) \div 4) * height_cm
            - Scale * (5 * age) + Scale * 5
    ELSE Scale * (10 * weight_current_kg) + ((Scale * 25) \div 4) * height_cm
            - Scale * (5 * age) - Scale * 161

\* 2) TDEE
Tdee(rmr, activity_factor) == (rmr * activity_factor) \div ActivityUnit

\* 3) deficit_map[intensity], in kcal
deficit_map == [Gentle |-> 250, Moderate |-> 500, Aggressive |-> 750]

Deficit(intensity) == Scale * deficit_map[intensity]

TargetKcalNoFloor(tdee, deficit) == tdee - deficit

TargetKcal(tdee, deficit) == Max(tdee - deficit, Scale * SAFETY_FLOOR)

\* 4) Macros based on chosen weight
WeightForMacrosAlwaysCurrent(weight_source, weight_current_kg, weight_goal_kg) ==
    weight_current_kg

WeightForMacros(weight_source, weight_current_kg, weight_goal_kg) ==
    IF weight_source = "Current" THEN weight_current_kg ELSE weight_goal_kg

\* weight * g_per_kg
GramsPerWeight(weight, g_per_kg) == (Scale * weight * g_per_kg) \div RatioUnit

KcalProtein(protein_g) == protein_g * 4

KcalFat(fat_g) == fat_g * 9

KcalCarbsAbs(target_kcal, kcal_protein, kcal_fat) ==
    IF target_kcal >= kcal_protein + kcal_fat
    THEN target_kcal - (kcal_protein + kcal_fat)
    ELSE (kcal_protein + kcal_fat) - target_kcal

KcalCarbs(target_kcal, kcal_protein, kcal_fat) ==
    Max(target_kcal - (kcal_protein + kcal_fat), 0)

CarbsGAsFat(kcal_carbs) == IF kcal_carbs > 0 THEN kcal_carbs \div 9 ELSE 0

CarbsG(kcal_carbs) == IF kcal_carbs > 0 THEN kcal_carbs \div 4 ELSE 0

\* kcal / target_kcal * 100, guarded against target_kcal = 0
Pct(kcal, target_kcal) ==
    IF target_kcal > 0
    THEN LET whole == (kcal * 100) \div target_kcal
             rest  == (kcal * 100) % target_kcal
         IN  whole * PctScale + RoundDiv(rest * PctScale, target_kcal)
    ELSE 0

calculate_macros(args) ==
    LET rmr == Rmr(args.sex, args.age, args.height_cm, args.weight_current_kg)
        tdee == Tdee(rmr, args.activity_factor)
        target_kcal == TargetKcal(tdee, Deficit(args.intensity))
        weight_for_macros == WeightForMacros(args.weight_source,
                                 args.weight_current_kg, args.weight_goal_kg)
        protein_g == GramsPerWeight(weight_for_macros, args.protein_g_per_kg)
        fat_g == GramsPerWeight(weight_for_macros, args.fat_g_per_kg)
        kcal_protein == KcalProtein(protein_g)
        kcal_fat == KcalFat(fat_g)
        kcal_carbs == KcalCarbs(target_kcal, kcal_protein, kcal_fat)
    IN  [rmr |-> rmr,
         tdee |-> tdee,
         target_kcal |-> target_kcal,
         protein_g |-> protein_g,
         fat_g |-> fat_g,
         carbs_g |-> CarbsG(kcal_carbs),
         protein_pct |-> Pct(kcal_protein, target_kcal),
         fat_pct |-> Pct(kcal_fat, target_kcal),
         carbs_pct |-> Pct(kcal_carbs, target_kcal)]

----------------------------------------------------------------------------
(* String formatting *)

\* f"{x:.Nf}" of the value n / scale: the count of 1/dscale units nearest to
\* it, ties to the even count (n >= 0)
FormatFixed(n, scale, dscale) ==
    LET q == (n * dscale) \div scale
        r == (n * dscale) % scale
    IN  IF 2 * r < scale THEN q
        ELSE IF 2 * r > scale THEN q + 1
        ELSE IF q % 2 = 0 THEN q ELSE q + 1

\* x or default, for a str x
OrDefault(x, default) == IF x = "" THEN default ELSE x

----------------------------------------------------------------------------
(* build_mealplan_prompt *)

SpanishNote ==
    "IMPORTANT: Responde TODO en espanol, incluyendo encabezados, etiquetas y descripciones. Usa un estilo claro y facil de entender para pacientes."

EnglishNote ==
    "IMPORTANT: Respond entirely in English. Use a clear, patient-friendly style."

lang_note_swapped(language) ==
    IF language = "English" THEN EnglishNote ELSE SpanishNote

\* Language instructions for the model
lang_note(language) ==
    IF language = "Spanish" THEN SpanishNote ELSE EnglishNote

\* the f-string: its interpolated fields; the text between them is fixed
build_mealplan_prompt(m, allergies, dislikes, preferred_store, weekly_budget, language) ==
    [lang_note |-> lang_note(language),
     task |-> "Create a 7-day meal plan (breakfast, lunch, dinner, and 1-2 snacks per day)",
     daily_calories |-> FormatFixed(m.target_kcal, Scale, 1),
     protein |-> FormatFixed(m.protein_g, Scale, 1),
     carbohydrates |-> FormatFixed(m.carbs_g, Scale, 1),
     fats |-> FormatFixed(m.fat_g, Scale, 1),
     allergies |-> OrDefault(allergies, "none specified"),
     dislikes |-> OrDefault(dislikes, "none specified"),
     weekly_budget |-> FormatFixed(weekly_budget, 1, 100),
     preferred_store |-> OrDefault(preferred_store, "generic US supermarket")]

----------------------------------------------------------------------------
(* generate_meal_plan_with_ai: the request and what the service can do *)

MODEL_NAME == "gpt-4.1-mini"

chat_request(p) ==
    [model |-> MODEL_NAME,
     system |-> "You are a precise, practical meal-planning assistant for evidence-based weight management.",
     user |-> p]

\* a message content: None, or a str held as its lines (text.split("\n"))
None == [is_none |-> TRUE, lines |-> <<>>]

Str(lines) == [is_none |-> FALSE, lines |-> lines]

\* texts the service can return
PlanTexts == { Str(<<"Day 1", "- Breakfast: oats">>), Str(<<"Dia 1">>) }

\* exceptions client.chat.completions.create can raise
ApiErrors ==
    { [type |-> "APIConnectionError", detail |-> "Connection error."],
      [type |-> "AuthenticationError", detail |-> "Incorrect API key provided"],
      [type |-> "RateLimitError", detail |-> "You exceeded your current quota"] }

\* what one call of create can do: raise, or return a completion that has a
\* first choice with text content, one with content None, or no choice at all
Outcomes ==
    { [kind |-> "raise", error |-> e] : e \in ApiErrors }
        \cup { [kind |-> "completion", choices |-> <<c>>] : c \in PlanTexts \cup {None} }
        \cup { [kind |-> "completion", choices |-> <<>>] }

IndexError == [type |-> "IndexError", detail |-> "list index out of range"]

AttributeError ==
    [type |-> "AttributeError", detail |-> "'NoneType' object has no attribute 'split'"]

----------------------------------------------------------------------------
(* create_pdf_from_text *)

\* one page: the title line and one text line per line of the input
create_pdf_from_text(text, title) ==
    [pagesize |-> "letter", pages |-> 1, title |-> title, lines |-> text.lines]

pdf_title(language) ==
    IF language = "Spanish" THEN "Meal Plan (Spanish)" ELSE "Meal Plan (English)"

----------------------------------------------------------------------------
(* What main() puts on the page *)

form_page == << [widget |-> "title"], [widget |-> "form"] >>

success_box == [widget |-> "success", body |-> "Calculated macros successfully."]

macros_panel(m) ==
    [widget |-> "macros",
     rmr |-> FormatFixed(m.rmr, Scale, 1),
     tdee |-> FormatFixed(m.tdee, Scale, 1),
     target_kcal |-> FormatFixed(m.target_kcal, Scale, 1),
     protein_g |-> FormatFixed(m.protein_g, Scale, 1),
     protein_pct |-> FormatFixed(m.protein_pct, PctScale, 10),
     fat_g |-> FormatFixed(m.fat_g, Scale, 1),
     fat_pct |-> FormatFixed(m.fat_pct, PctScale, 10),
     carbs_g |-> FormatFixed(m.carbs_g, Scale, 1),
     carbs_pct |-> FormatFixed(m.carbs_pct, PctScale, 10)]

text_area(value) == [widget |-> "text_area", label |-> "Meal plan", value |-> value]

download_button(data) ==
    [widget |-> "download_button", data |-> data, file_name |-> "meal_plan.pdf",
     mime |-> "application/pdf"]

error_box(e) ==
    [widget |-> "error", body |-> <<"Error generating meal plan: ", e.detail>>]

----------------------------------------------------------------------------
(* The inputs.  The form admits sex M/F, age 12..100, height 120..230 cm,   *)
(* weights 30..300 kg, activity factor 1.1..2.5, protein 0.8..2.5 g/kg,     *)
(* fat 0.3..1.5 g/kg and budget 10..1000; the sets hold both ends of each   *)
(* range, the form's default and the values of the documented examples.     *)

MaxSubmissions == 2

Sexes == {"M", "F"}
Ages == {12, 30, 100}
Heights == {120, 170, 230}
CurrentWeights == {30, 70, 300}
GoalWeights == {30, 65, 100, 300}
WeightSources == {"Current", "Goal"}
ActivityFactors == {44, 55, 100}            \* 1.1, 1.375, 2.5
Intensities == {"Gentle", "Moderate", "Aggressive"}
ProteinRatios == {8, 12, 14, 25}            \* 0.8, 1.2, 1.4, 2.5
FatRatios == {3, 7, 8, 15}                  \* 0.3, 0.7, 0.8, 1.5
FormLanguages == {"English", "Spanish"}     \* the selectbox options
Languages == FormLanguages \cup {"French", "spanish", ""}

\* the widgets' initial values
defaults ==
    [sex |-> "M", age |-> 30, height_cm |-> 170, weight_current_kg |-> 70,
     weight_goal_kg |-> 65, weight_source |-> "Current", activity_factor |-> 55,
     intensity |-> "Gentle", protein_g_per_kg |-> 14, fat_g_per_kg |-> 7,
     allergies |-> "", dislikes |-> "", preferred_store |-> "",
     weekly_budget |-> 120, language |-> "English"]

\* every valid argument list of calculate_macros over the sets above
MacroArgs ==
    { [defaults EXCEPT !.sex = s, !.age = a, !.height_cm = h,
                       !.weight_current_kg = wc, !.weight_goal_kg = wg,
                       !.weight_source = ws, !.activity_factor = af,
                       !.intensity = i, !.protein_g_per_kg = p, !.fat_g_per_kg = f] :
        s \in Sexes, a \in Ages, h \in Heights, wc \in CurrentWeights,
        wg \in GoalWeights, ws \in WeightSources, af \in ActivityFactors,
        i \in Intensities, p \in ProteinRatios, f \in FatRatios }

\* the meal-plan preferences a caller can pass to build_mealplan_prompt
Preferences ==
    { [allergies |-> t[1], dislikes |-> t[2], preferred_store |-> t[3],
       weekly_budget |-> t[4], language |-> l] :
        t \in { <<"", "", "", 120>>, <<"peanuts", "cilantro", "H-E-B", 10>> },
        l \in Languages }

\* what a user can submit through the form
Submittable ==
    { [defaults EXCEPT !.sex = s, !.weight_current_kg = wc, !.weight_source = ws,
                       !.weight_goal_kg = wg, !.intensity = i,
                       !.protein_g_per_kg = p, !.fat_g_per_kg = p - 7,
                       !.allergies = a, !.language = l] :
        s \in Sexes, wc \in CurrentWeights, ws \in WeightSources, wg \in {65, 100},
        i \in Intensities, p \in {14, 22}, a \in {"", "peanuts"}, l \in FormLanguages }

----------------------------------------------------------------------------
(* main(): one script run per form submission *)

Init ==
    /\ pc = "form"
    /\ inputs = defaults
    /\ macros = <<>>
    /\ prompt = <<>>
    /\ request = <<>>
    /\ outcome = <<>>
    /\ plan_text = <<>>
    /\ pdf_bytes = <<>>
    /\ exc = <<>>
    /\ display = form_page
    /\ submissions = 0
    /\ requests = 0

\* the user fills the form and presses the submit button: a new script run
\* starts, draws the page afresh and reaches "if submitted:" with submitted true
Submit ==
    /\ pc \in {"form", "done"}
    /\ submissions < MaxSubmissions
    /\ \E args \in Submittable : inputs' = args
    /\ submissions' = submissions + 1
    /\ pc' = "submitted"
    /\ macros' = <<>>
    /\ prompt' = <<>>
    /\ request' = <<>>
    /\ outcome' = <<>>
    /\ plan_text' = <<>>
    /\ pdf_bytes' = <<>>
    /\ exc' = <<>>
    /\ display' = form_page
    /\ UNCHANGED requests

\* macros = calculate_macros(...) and the st.success / st.metric / st.write calls
ComputeMacros ==
    /\ pc = "submitted"
    /\ LET m == calculate_macros(inputs)
       IN  /\ macros' = <<m>>
           /\ display' = display \o <<success_box, macros_panel(m)>>
    /\ pc' = "computed"
    /\ UNCHANGED <<inputs, prompt, request, outcome, plan_text, pdf_bytes, exc,
                   submissions, requests>>

\* generate_meal_plan_with_ai is entered: prompt = build_mealplan_prompt(...)
BuildPrompt ==
    /\ pc = "computed"
    /\ prompt' = <<build_mealplan_prompt(macros[1], inputs.allergies, inputs.dislikes,
                       inputs.preferred_store, inputs.weekly_budget, inputs.language)>>
    /\ pc' = "prompted"
    /\ UNCHANGED <<inputs, macros, request, outcome, plan_text, pdf_bytes, exc, display,
                   submissions, requests>>

\* client.chat.completions.create(...) is called
SendRequest ==
    /\ pc = "prompted"
    /\ request' = <<chat_request(prompt[1])>>
    /\ requests' = requests + 1
    /\ pc' = "calling"
    /\ UNCHANGED <<inputs, macros, prompt, outcome, plan_text, pdf_bytes, exc, display,
                   submissions>>

\* create raises, or returns a completion
CallReturns ==
    /\ pc = "calling"
    /\ \E o \in Outcomes :
          /\ outcome' = <<o>>
          /\ IF o.kind = "raise"
             THEN exc' = <<o.error>> /\ pc' = "except"
             ELSE exc' = exc /\ pc' = "returned"
    /\ UNCHANGED <<inputs, macros, prompt, request, plan_text, pdf_bytes, display, submissions,
                   requests>>

\* return completion.choices[0].message.content, assigned to plan_text
ReadContent ==
    /\ pc = "returned"
    /\ IF outcome[1].choices = <<>>
       THEN exc' = <<IndexError>> /\ plan_text' = plan_text /\ pc' = "except"
       ELSE exc' = exc /\ plan_text' = <<outcome[1].choices[1]>> /\ pc' = "planned"
    /\ UNCHANGED <<inputs, macros, prompt, request, outcome, pdf_bytes, display, submissions,
                   requests>>

\* st.text_area("Meal plan", plan_text, height=500)
ShowPlan ==
    /\ pc = "planned"
    /\ display' = Append(display, text_area(plan_text[1]))
    /\ pc' = "shown"
    /\ UNCHANGED <<inputs, macros, prompt, request, outcome, plan_text, pdf_bytes, exc,
                   submissions, requests>>

\* RenderPdf, were None rendered as an empty text
RenderPdfOfNone ==
    /\ pc = "shown"
    /\ exc' = exc
    /\ pdf_bytes' = <<create_pdf_from_text(plan_text[1], pdf_title(inputs.language))>>
    /\ pc' = "rendered"
    /\ UNCHANGED <<inputs, macros, prompt, request, outcome, plan_text, display, submissions,
                   requests>>

\* pdf_bytes = create_pdf_from_text(plan_text, title=...); text.split fails on None
RenderPdf ==
    /\ pc = "shown"
    /\ IF plan_text[1].is_none
       THEN exc' = <<AttributeError>> /\ pdf_bytes' = pdf_bytes /\ pc' = "except"
       ELSE /\ exc' = exc
            /\ pdf_bytes' = <<create_pdf_from_text(plan_text[1], pdf_title(inputs.language))>>
            /\ pc' = "rendered"
    /\ UNCHANGED <<inputs, macros, prompt, request, outcome, plan_text, display, submissions,
                   requests>>

\* st.download_button(...): the end of the try block
OfferDownload ==
    /\ pc = "rendered"
    /\ display' = Append(display, download_button(pdf_bytes[1]))
    /\ pc' = "done"
    /\ UNCHANGED <<inputs, macros, prompt, request, outcome, plan_text, pdf_bytes, exc,
                   submissions, requests>>

\* HandleError, were the page cleared for the error message
HandleErrorClearsPage ==
    /\ pc = "except"
    /\ display' = <<error_box(exc[1])>>
    /\ pc' = "done"
    /\ UNCHANGED <<inputs, macros, prompt, request, outcome, plan_text, pdf_bytes, exc,
                   submissions, requests>>

\* HandleError, were a failed request issued once more
HandleErrorRetries ==
    /\ pc = "except"
    /\ IF outcome[1].kind = "raise" /\ requests = submissions
       THEN /\ pc' = "prompted"
            /\ exc' = <<>>
            /\ outcome' = <<>>
            /\ display' = display
       ELSE /\ pc' = "done"
            /\ exc' = exc
            /\ outcome' = outcome
            /\ display' = Append(display, error_box(exc[1]))
    /\ UNCHANGED <<inputs, macros, prompt, request, plan_text, pdf_bytes, submissions,
                   requests>>

\* except Exception as e: st.error(f"Error generating meal plan: {e}")
HandleError ==
    /\ pc = "except"
    /\ display' = Append(display, error_box(exc[1]))
    /\ pc' = "done"
    /\ UNCHANGED <<inputs, macros, prompt, request, outcome, plan_text, pdf_bytes, exc,
                   submissions, requests>>

\* any other interaction (the download button included) reruns the script with
\* submitted false: only the title and the form are drawn
Rerun ==
    /\ pc = "done"
    /\ pc' = "form"
    /\ macros' = <<>>
    /\ prompt' = <<>>
    /\ request' = <<>>
    /\ outcome' = <<>>
    /\ plan_text' = <<>>
    /\ pdf_bytes' = <<>>
    /\ exc' = <<>>
    /\ display' = form_page
    /\ UNCHANGED <<inputs, submissions, requests>>

Next ==
    \/ Submit
    \/ ComputeMacros
    \/ BuildPrompt
    \/ SendRequest
    \/ CallReturns
    \/ ReadContent
    \/ ShowPlan
    \/ RenderPdf
    \/ OfferDownload
    \/ HandleError
    \/ Rerun

Spec == Init /\ [][Next]_vars

----------------------------------------------------------------------------
(* The two pure functions called directly, on every argument list of the   *)
(* sets above                                                               *)

InitFn ==
    /\ pc = "args"
    /\ inputs \in MacroArgs
    /\ macros = <<>>
    /\ prompt = <<>>
    /\ request = <<>>
    /\ outcome = <<>>
    /\ plan_text = <<>>
    /\ pdf_bytes = <<>>
    /\ exc = <<>>
    /\ display = <<>>
    /\ submissions = 0
    /\ requests = 0

CallCalculateMacros ==
    /\ pc = "args"
    /\ macros' = <<calculate_macros(inputs)>>
    /\ pc' = "macros"
    /\ UNCHANGED <<inputs, prompt, request, outcome, plan_text, pdf_bytes, exc, display,
                   submissions, requests>>

CallBuildPrompt ==
    /\ pc = "macros"
    /\ \E pr \in Preferences :
          /\ inputs' = [inputs EXCEPT !.allergies = pr.allergies,
                                      !.dislikes = pr.dislikes,
                                      !.preferred_store = pr.preferred_store,
                                      !.weekly_budget = pr.weekly_budget,
                                      !.language = pr.language]
          /\ prompt' = <<build_mealplan_prompt(macros[1], pr.allergies, pr.dislikes,
                             pr.preferred_store, pr.weekly_budget, pr.language)>>
    /\ pc' = "prompt"
    /\ UNCHANGED <<macros, request, outcome, plan_text, pdf_bytes, exc, display,
                   submissions, requests>>

NextFn ==
    \/ CallCalculateMacros
    \/ CallBuildPrompt

SpecFn == InitFn /\ [][NextFn]_vars

----------------------------------------------------------------------------
(* Properties of calculate_macros and build_mealplan_prompt, under SpecFn  *)

m == macros[1]

called == pc \in {"macros", "prompt"}

protein_energy == m.protein_g * 4

fat_energy == m.fat_g * 9

selected_weight ==
    IF inputs.weight_source = "Current"
    THEN inputs.weight_current_kg
    ELSE inputs.weight_goal_kg

\* C1: for every valid input the returned target_kcal is at least 1200 kcal,
\* and it is exactly 1200 kcal whenever TDEE minus the intensity's deficit is
\* below 1200 kcal.
C1_TargetFloor ==
    called =>
        /\ m.target_kcal >= Scale * 1200
        /\ (m.tdee - Deficit(inputs.intensity) < Scale * 1200
                => m.target_kcal = Scale * 1200)

C1_Witness ==
    /\ called
    /\ m.tdee - Deficit(inputs.intensity) < Scale * 1200
    /\ m.target_kcal = Scale * 1200

\* C2: for every valid input the three returned percentages sum to 100, up to
\* the rounding of the three divisions, whenever target_kcal > 0 (also when
\* protein energy plus fat energy exceeds target_kcal), and all three are 0
\* when target_kcal is 0.
C2_PctSumIs100 ==
    called =>
        IF m.target_kcal > 0
        THEN /\ m.protein_pct + m.fat_pct + m.carbs_pct >= 100 * PctScale - 2
             /\ m.protein_pct + m.fat_pct + m.carbs_pct <= 100 * PctScale + 2
        ELSE m.protein_pct = 0 /\ m.fat_pct = 0 /\ m.carbs_pct = 0

\* C3: carbs_g is never negative; it is exactly 0 when protein energy plus fat
\* energy is at least target_kcal, and protein_g and fat_g are then still the
\* selected weight times their g/kg ratios.
C3_CarbsClamped ==
    called =>
        /\ m.carbs_g >= 0
        /\ (protein_energy + fat_energy >= m.target_kcal
                => /\ m.carbs_g = 0
                   /\ m.protein_g * RatioUnit
                        = Scale * selected_weight * inputs.protein_g_per_kg
                   /\ m.fat_g * RatioUnit
                        = Scale * selected_weight * inputs.fat_g_per_kg)

C3_Witness ==
    /\ called
    /\ protein_energy + fat_energy > m.target_kcal
    /\ m.carbs_g = 0

\* the boundary of C3: protein energy plus fat energy equal to target_kcal
C3_BoundaryWitness ==
    /\ called
    /\ protein_energy + fat_energy = m.target_kcal

other_source == IF inputs.weight_source = "Current" THEN "Goal" ELSE "Current"

other_weight ==
    IF inputs.weight_source = "Current"
    THEN inputs.weight_goal_kg
    ELSE inputs.weight_current_kg

\* the result of the call that differs only in weight_source
other_result == calculate_macros([inputs EXCEPT !.weight_source = other_source])

\* C4: two calls that differ only in weight_source return the same rmr, tdee
\* and target_kcal; each returns protein_g and fat_g equal to its selected
\* weight times the g/kg ratios, so the grams differ by the weight difference
\* times the ratios.
C4_WeightSourceFrame ==
    called =>
        /\ other_result.rmr = m.rmr
        /\ other_result.tdee = m.tdee
        /\ other_result.target_kcal = m.target_kcal
        /\ m.protein_g * RatioUnit = Scale * selected_weight * inputs.protein_g_per_kg
        /\ m.fat_g * RatioUnit = Scale * selected_weight * inputs.fat_g_per_kg
        /\ (other_result.protein_g - m.protein_g) * RatioUnit
             = Scale * (other_weight - selected_weight) * inputs.protein_g_per_kg
        /\ (other_result.fat_g - m.fat_g) * RatioUnit
             = Scale * (other_weight - selected_weight) * inputs.fat_g_per_kg

C4_Witness ==
    /\ called
    /\ inputs.weight_source = "Goal"
    /\ inputs.weight_goal_kg # inputs.weight_current_kg
    /\ other_result.protein_g # m.protein_g
    /\ other_result.rmr = m.rmr

is_example ==
    /\ inputs.sex = "M"
    /\ inputs.age = 30
    /\ inputs.height_cm = 170
    /\ inputs.weight_current_kg = 70
    /\ inputs.activity_factor = 55
    /\ inputs.intensity = "Moderate"

\* the formulas of C5, without its example
C5_Formulas ==
        /\ 4 * m.rmr = Scale * (40 * inputs.weight_current_kg + 25 * inputs.height_cm
                                  - 20 * inputs.age
                                  + (IF inputs.sex = "M" THEN 20 ELSE -644))
        /\ ActivityUnit * m.tdee = m.rmr * inputs.activity_factor
        /\ m.target_kcal
             = Max(m.tdee - Scale * (CASE inputs.intensity = "Gentle" -> 250
                                       [] inputs.intensity = "Moderate" -> 500
                                       [] inputs.intensity = "Aggressive" -> 750),
                   Scale * 1200)

\* C5 as stated: rmr = 10*weight_current + 6.25*height - 5*age + 5 for M and
\* - 161 for F, always from the current weight; tdee = rmr * activity_factor;
\* target_kcal = max(tdee - deficit, 1200) with deficit 250 / 500 / 750 for
\* Gentle / Moderate / Aggressive; M, 30 y, 170 cm, 70 kg, 1.375, Moderate
\* gives rmr 1706.5, tdee 2346.4375 and target 1846.4375.
C5_AsStated ==
    called =>
        /\ C5_Formulas
        /\ (is_example => /\ 2 * m.rmr = Scale * 3413
                          /\ 16 * m.tdee = Scale * 37543
                          /\ 16 * m.target_kcal = Scale * 29543)

\* C5, amended: the same formulas; M, 30 y, 170 cm, 70 kg, 1.375, Moderate
\* gives rmr 1617.5, tdee 2224.0625 and target 1724.0625.
C5_MifflinStJeor ==
    called =>
        /\ C5_Formulas
        /\ (is_example => /\ 2 * m.rmr = Scale * 3235
                          /\ 16 * m.tdee = Scale * 35585
                          /\ 16 * m.target_kcal = Scale * 27585)

C5_Witness ==
    /\ called
    /\ is_example
    /\ 2 * m.rmr = Scale * 3235
    /\ 16 * m.target_kcal = Scale * 27585

\* C10: when protein energy plus fat energy does not exceed target_kcal, the
\* three macro energies add up to target_kcal exactly; their sum exceeds
\* target_kcal only when carbs_g is 0.
C10_EnergyBalance ==
    called =>
        /\ (protein_energy + fat_energy <= m.target_kcal
                => protein_energy + fat_energy + m.carbs_g * 4 = m.target_kcal)
        /\ (protein_energy + fat_energy + m.carbs_g * 4 > m.target_kcal
                => m.carbs_g = 0)

C10_Witness ==
    /\ called
    /\ protein_energy + fat_energy < m.target_kcal
    /\ m.carbs_g > 0
    /\ protein_energy + fat_energy + m.carbs_g * 4 = m.target_kcal

\* C8: the prompt carries the Spanish directive exactly when language is
\* "Spanish", the Spanish directive differs from the English one, and every
\* other language value, recognised or not, gets the English directive: a
\* prompt is built for every value and none is without a directive.
C8_LanguageDirective ==
    pc = "prompt" =>
        /\ SpanishNote # EnglishNote
        /\ prompt # <<>>
        /\ (inputs.language = "Spanish" => prompt[1].lang_note = SpanishNote)
        /\ (inputs.language # "Spanish" => prompt[1].lang_note = EnglishNote)

C8_Witness ==
    /\ pc = "prompt"
    /\ inputs.language \notin {"English", "Spanish"}
    /\ prompt[1].lang_note = EnglishNote

----------------------------------------------------------------------------
(* Properties of the submission pipeline of main(), under Spec             *)

shown(w) == \E i \in 1..Len(display) : display[i].widget = w

failed == exc # <<>>

\* the page as it is once the macros are computed and displayed
macros_page == form_page \o <<success_box, macros_panel(calculate_macros(inputs))>>

\* the page still starts with the macros as they were displayed
macros_displayed ==
    /\ Len(display) >= Len(macros_page)
    /\ SubSeq(display, 1, Len(macros_page)) = macros_page

\* C6: when the text-generation call fails (the request raises, or the
\* response is malformed), the run still ends: the exception is caught, the
\* page ends with an error message that holds the exception's detail, and
\* the macros computed and displayed before the call are still displayed,
\* unchanged.
C6_FailureCaught ==
    /\ (pc = "except" => failed /\ ENABLED HandleError)
    /\ (pc = "done" /\ failed =>
            /\ display[Len(display)].widget = "error"
            /\ display[Len(display)].body[2] = exc[1].detail
            /\ macros = <<calculate_macros(inputs)>>
            /\ macros_displayed)

C6_Witness ==
    /\ pc = "done"
    /\ outcome # <<>>
    /\ outcome[1].kind = "raise"
    /\ display = Append(macros_page, error_box(outcome[1].error))

\* the runs whose request has not been issued yet
before_request == pc \in {"submitted", "computed", "prompted"}

C9_StageOrder ==
    /\ (prompt # <<>> => macros # <<>> /\ macros_displayed)
    /\ (~before_request /\ pc # "form" => prompt # <<>>)
    /\ (before_request \/ pc \in {"form", "calling"} => outcome = <<>>)
    /\ (outcome = <<>> => plan_text = <<>> /\ ~shown("text_area"))
    /\ (pdf_bytes # <<>> =>
            /\ outcome # <<>>
            /\ outcome[1].kind = "completion"
            /\ outcome[1].choices # <<>>
            /\ ~outcome[1].choices[1].is_none
            /\ plan_text = <<outcome[1].choices[1]>>)
    /\ (shown("download_button") => pdf_bytes # <<>> /\ pc = "done")
    /\ (failed => pdf_bytes = <<>> /\ ~shown("download_button"))

C9_Witness ==
    /\ pc = "done"
    /\ ~failed
    /\ pdf_bytes # <<>>
    /\ display[Len(display)] = download_button(pdf_bytes[1])

====
